---- MODULE Spec2Model ----
(***************************************************************************)
(* Model of app/discovery/provider/docker.go: the Docker discovery         *)
(* provider.  Two components share the provider's read-only configuration  *)
(* (Excludes, Network):                                                    *)
(*   - the event watcher, Docker.Events / Docker.events, a goroutine that  *)
(*     subscribes to the runtime's event feed and signals on eventsCh;     *)
(*   - the inventory mapper, Docker.List / Docker.listContainers, a pure   *)
(*     translation of the runtime's container list into url mappers.       *)
(* Strings that the code only compares (statuses, types, label keys) are   *)
(* TLA+ strings; strings the code takes apart or formats (names, ips,      *)
(* patterns, destinations) are sequences of one-character strings.         *)
(***************************************************************************)
EXTENDS Integers, Sequences, FiniteSets, TLC

VARIABLES
    Excludes,       \* Docker.Excludes: list of container names to ignore
    Network,        \* Docker.Network: name of the network whose address is used
    pc,             \* position of the goroutine started by Events
    ctxErr,         \* ctx.Err(): NilErr until the lifetime is cancelled or expires
    feed,           \* dockerEventsCh of the current events() call: none/open/closed
    err,            \* the error events() returned to the loop of Events
    closes,         \* number of close(eventsCh) executed
    ev,             \* the event last received from dockerEventsCh
    observed,       \* history: number of events received from the feeds
    relevantTaken,  \* history: indexes of the received events that reached line 132
    pending,        \* history: index of the event whose signal is being sent, 0 if none
    delivered,      \* history: indexes of the events whose signal the consumer received
    failKinds,      \* history: kinds of transient failure seen so far
    containers,     \* what DockerClient.ListContainers returns now
    apiFails,       \* whether DockerClient.ListContainers returns an error now
    listRes,        \* result slice of the last List() call
    listErr,        \* error of the last List() call
    listFrom,       \* history: IDs of the containers the rules of listRes came from
    listCalls,      \* number of List() calls made
    enumCalls       \* number of ListContainers calls made

watcherVars == <<pc, ctxErr, feed, err, closes, ev, observed, relevantTaken,
                 pending, delivered, failKinds>>
listVars == <<containers, apiFails, listRes, listErr, listFrom, listCalls,
              enumCalls>>
config == <<Excludes, Network>>
vars == <<config, watcherVars, listVars>>

----------------------------------------------------------------------------
(* Bounds *)

\* events received from the runtime feeds over one run
MaxEvents == 2
\* containers the runtime enumerates in one call
MaxContainers == 2
\* List() calls over one run
MaxCalls == 2

----------------------------------------------------------------------------
(* Strings and errors *)

Slash == <<"/">>
NameFoo == <<"f", "o", "o">>
NameBar == <<"b", "a", "r">>
NameSkip == <<"s", "k", "i", "p">>

\* strings.TrimPrefix: s without the leading p, s itself when p is no prefix
TrimPrefix(s, p) ==
    IF Len(s) >= Len(p) /\ SubSeq(s, 1, Len(p)) = p
    THEN SubSeq(s, Len(p) + 1, Len(s))
    ELSE s

\* contains(e, s): e is an element of the list s
contains(e, s) == \E i \in 1..Len(s) : s[i] = e

upStatuses == <<"start", "restart">>
downStatuses == <<"die", "destroy", "stop", "pause">>

\* An error value is the list of its messages, outermost first; nil is empty.
NilErr == <<>>
Canceled == <<"context canceled">>
DeadlineExceeded == <<"context deadline exceeded">>
EventsClosed == <<"events closed">>
\* variant: the wrapped error is handed on as it is
WrapTransparent(e, msg) == e
\* errors.Wrap(e, msg): a new error value around e
Wrap(e, msg) == <<msg>> \o e

\* errors AddEventListener may return; the interface allows any error value
ClientErrors == {<<"connection refused">>, Canceled}

----------------------------------------------------------------------------
(* Configuration and inputs of the watcher *)

ExcludesChoices == {<<>>, <<NameSkip, Slash \o NameBar>>}
NetworkChoices == {"bridge"}

NoEvent == [Type |-> "", Status |-> "", Name |-> <<>>]

EventTypes == {"container", "network"}
EventStatuses == {"start", "restart", "die", "destroy", "stop", "pause", "create"}
\* ev.Actor.Attributes["name"]: the empty string when the attribute is missing
EventNames == {<<>>, Slash \o NameFoo, NameSkip, Slash \o NameSkip,
               Slash \o NameBar, Slash \o Slash \o NameBar}
Events == [Type : EventTypes, Status : EventStatuses, Name : EventNames]

----------------------------------------------------------------------------
(* The event watcher *)

\* variant: every error ends the loop
IsCtxErrAny(e) == e # NilErr
\* variant: the innermost cause of the error is compared, not the error
IsCtxErrUnwrapped(e) ==
    e # NilErr /\ e[Len(e)] \in {Canceled[1], DeadlineExceeded[1]}
\* line 58: the errors on which the loop of Events closes the sink and returns
IsCtxErr(e) == e = Canceled \/ e = DeadlineExceeded

\* variant: the name is looked up in Excludes with its leading "/"
PassesNoTrim(e) ==
    /\ e.Type = "container"
    /\ contains(e.Status, upStatuses) \/ contains(e.Status, downStatuses)
    /\ ~contains(e.Name, Excludes)
\* lines 118-130: the event passes the three filters of events()
Passes(e) ==
    /\ e.Type = "container"
    /\ contains(e.Status, upStatuses) \/ contains(e.Status, downStatuses)
    /\ ~contains(TrimPrefix(e.Name, Slash), Excludes)

WatcherInit ==
    /\ pc = "subscribe"
    /\ ctxErr = NilErr
    /\ feed = "none"
    /\ err = NilErr
    /\ closes = 0
    /\ ev = NoEvent
    /\ observed = 0
    /\ relevantTaken = <<>>
    /\ pending = 0
    /\ delivered = <<>>
    /\ failKinds = {}

\* lines 105-106: make the feed channel and register it with the client,
\* which accepts it
SubscribeOK ==
    /\ pc = "subscribe"
    /\ feed' = "open"
    /\ pc' = "select"
    /\ UNCHANGED <<ctxErr, err, closes, ev, observed, relevantTaken, pending,
                   delivered, failKinds>>
    /\ UNCHANGED <<config, listVars>>

\* lines 105-108: the client refuses the listener with error r, events()
\* returns it wrapped
SubscribeFail(r) ==
    /\ pc = "subscribe"
    /\ err' = Wrap(r, "can't add even listener")
    /\ pc' = "check"
    /\ failKinds' = failKinds \cup {"subscribe"}
    /\ UNCHANGED <<ctxErr, feed, closes, ev, observed, relevantTaken, pending,
                   delivered>>
    /\ UNCHANGED <<config, listVars>>

\* lines 105-108: the call of AddEventListener returns
Subscribe == SubscribeOK \/ \E r \in ClientErrors : SubscribeFail(r)

\* lines 112-113: the select takes the ctx.Done() case
CtxDone ==
    /\ pc = "select"
    /\ ctxErr # NilErr
    /\ err' = ctxErr
    /\ pc' = "check"
    /\ feed' = "none"
    /\ UNCHANGED <<ctxErr, closes, ev, observed, relevantTaken, pending,
                   delivered, failKinds>>
    /\ UNCHANGED <<config, listVars>>

\* lines 114-117: the select receives from a closed feed
RecvClosed ==
    /\ pc = "select"
    /\ feed = "closed"
    /\ err' = EventsClosed
    /\ pc' = "check"
    /\ feed' = "none"
    /\ failKinds' = failKinds \cup {"feed"}
    /\ UNCHANGED <<ctxErr, closes, ev, observed, relevantTaken, pending,
                   delivered>>
    /\ UNCHANGED <<config, listVars>>

\* variant: a send into a buffer, which does not wait for the consumer
TakeEventBuffered(e) ==
    /\ pc = "select"
    /\ feed = "open"
    /\ observed < MaxEvents
    /\ ev' = e
    /\ observed' = observed + 1
    /\ pc' = "select"
    /\ IF Passes(e)
       THEN /\ pending' = observed'
            /\ relevantTaken' = Append(relevantTaken, observed')
       ELSE UNCHANGED <<pending, relevantTaken>>
    /\ UNCHANGED <<ctxErr, feed, err, closes, delivered, failKinds>>
    /\ UNCHANGED <<config, listVars>>

\* variant: a send that gives up when no consumer is waiting
TakeEventDropping(e) ==
    /\ pc = "select"
    /\ feed = "open"
    /\ observed < MaxEvents
    /\ ev' = e
    /\ observed' = observed + 1
    /\ pc' = "select"
    /\ relevantTaken' = IF Passes(e) THEN Append(relevantTaken, observed')
                                     ELSE relevantTaken
    /\ UNCHANGED <<ctxErr, feed, err, closes, pending, delivered, failKinds>>
    /\ UNCHANGED <<config, listVars>>

\* lines 114-132: the select receives event e, filters it and either goes on
\* to the next event or starts the blocking send of line 132
TakeEvent(e) ==
    /\ pc = "select"
    /\ feed = "open"
    /\ observed < MaxEvents
    /\ ev' = e
    /\ observed' = observed + 1
    /\ IF Passes(e)
       THEN /\ pc' = "send"
            /\ pending' = observed'
            /\ relevantTaken' = Append(relevantTaken, observed')
       ELSE /\ pc' = "select"
            /\ UNCHANGED <<pending, relevantTaken>>
    /\ UNCHANGED <<ctxErr, feed, err, closes, delivered, failKinds>>
    /\ UNCHANGED <<config, listVars>>

\* line 132 completes: the consumer receives the signal from eventsCh
Receive ==
    /\ pc = "send"
    /\ delivered' = Append(delivered, pending)
    /\ pending' = 0
    /\ pc' = "select"
    /\ UNCHANGED <<ctxErr, feed, err, closes, ev, observed, relevantTaken,
                   failKinds>>
    /\ UNCHANGED <<config, listVars>>

\* variant: the sink is closed but the loop goes on
CheckErrNoReturn ==
    /\ pc = "check"
    /\ IF IsCtxErr(err)
       THEN closes' = closes + 1
       ELSE UNCHANGED closes
    /\ pc' = "sleep"
    /\ err' = NilErr
    /\ UNCHANGED <<ctxErr, feed, ev, observed, relevantTaken, pending,
                   delivered, failKinds>>
    /\ UNCHANGED <<config, listVars>>

\* lines 58-62: the loop of Events looks at the error events() returned
CheckErr ==
    /\ pc = "check"
    /\ IF IsCtxErr(err)
       THEN /\ closes' = closes + 1
            /\ pc' = "done"
       ELSE /\ pc' = "sleep"
            /\ UNCHANGED closes
    /\ err' = NilErr
    /\ UNCHANGED <<ctxErr, feed, ev, observed, relevantTaken, pending,
                   delivered, failKinds>>
    /\ UNCHANGED <<config, listVars>>

\* line 63: the fixed delay is over, the loop calls events() again
SleepDone ==
    /\ pc = "sleep"
    /\ pc' = "subscribe"
    /\ UNCHANGED <<ctxErr, feed, err, closes, ev, observed, relevantTaken,
                   pending, delivered, failKinds>>
    /\ UNCHANGED <<config, listVars>>

\* the owner of ctx cancels it
Cancel ==
    /\ ctxErr = NilErr
    /\ ctxErr' = Canceled
    /\ UNCHANGED <<pc, feed, err, closes, ev, observed, relevantTaken, pending,
                   delivered, failKinds>>
    /\ UNCHANGED <<config, listVars>>

\* the deadline of ctx passes
Expire ==
    /\ ctxErr = NilErr
    /\ ctxErr' = DeadlineExceeded
    /\ UNCHANGED <<pc, feed, err, closes, ev, observed, relevantTaken, pending,
                   delivered, failKinds>>
    /\ UNCHANGED <<config, listVars>>

\* the client closes the feed it was given (connection to the runtime lost)
CloseFeed ==
    /\ feed = "open"
    /\ feed' = "closed"
    /\ UNCHANGED <<pc, ctxErr, err, closes, ev, observed, relevantTaken,
                   pending, delivered, failKinds>>
    /\ UNCHANGED <<config, listVars>>

----------------------------------------------------------------------------
(* The inventory mapper *)

\* An error of List(): message, its %s argument, and the wrapped cause.
NoCause == [code |-> "", expr |-> <<>>]
NilListErr == [msg |-> "", arg |-> <<>>, cause |-> NoCause]
ApiError == [code |-> "api error", expr |-> <<>>]

ApiPrefix == <<"^", "/", "a", "p", "i", "/">>
CaptureSuffix == <<"/", "(", ".", "*", ")">>
HttpPrefix == <<"h", "t", "t", "p", ":", "/", "/">>
Colon == <<":">>
DollarOne == <<"/", "$", "1">>

Digits == <<"0", "1", "2", "3", "4", "5", "6", "7", "8", "9">>
\* the %d verb of fmt.Sprintf: the decimal digits of n
RECURSIVE Itoa(_)
Itoa(n) ==
    IF n < 0 THEN <<"-">> \o Itoa(-n)
    ELSE IF n < 10 THEN <<Digits[n + 1]>>
    ELSE Itoa(n \div 10) \o <<Digits[(n % 10) + 1]>>

\* regexp.Compile, for patterns without "\", "[" and "{": the parentheses
\* must balance and a repetition operator needs an argument.  The result is
\* the error code, "" when the pattern compiles.
RECURSIVE ParenScan(_, _, _)
ParenScan(p, i, depth) ==
    IF i > Len(p) THEN (IF depth = 0 THEN "" ELSE "missing closing )")
    ELSE IF p[i] = "(" THEN ParenScan(p, i + 1, depth + 1)
    ELSE IF p[i] = ")"
         THEN (IF depth = 0 THEN "unexpected )"
               ELSE ParenScan(p, i + 1, depth - 1))
    ELSE ParenScan(p, i + 1, depth)
Compile(p) ==
    IF p # <<>> /\ p[1] \in {"*", "+", "?"}
    THEN "missing argument to repetition operator"
    ELSE ParenScan(p, 1, 0)

\* variant: the down statuses pass as well
StatusUpOrDown(c) ==
    contains(c.Status, upStatuses) \/ contains(c.Status, downStatuses)
\* line 153: the container's status is an up status
StatusUp(c) == contains(c.Status, upStatuses)

\* line 156: the first name without its leading "/"
ContainerName(c) == TrimPrefix(c.Names[1], Slash)

\* variant: the name is looked up with its leading "/"
NameExcludedRaw(c) == contains(c.Names[1], Excludes)
\* lines 157-160: the container is excluded by name
NameExcluded(c) == contains(ContainerName(c), Excludes)

\* variant: without the configured network, the address on another one
NetworkIPAny(c) ==
    IF DOMAIN c.Networks = {} THEN <<>>
    ELSE IF Network \in DOMAIN c.Networks THEN c.Networks[Network]
    ELSE c.Networks[CHOOSE k \in DOMAIN c.Networks : TRUE]
\* lines 162-168: the address on the configured network, "" when the
\* container is not on it
NetworkIP(c) ==
    IF Network \in DOMAIN c.Networks THEN c.Networks[Network] ELSE <<>>

\* variant: the private port of the last port mapping
portExposedLast(c) ==
    IF Len(c.Ports) = 0 THEN [port |-> 0, ok |-> FALSE]
    ELSE [port |-> c.Ports[Len(c.Ports)], ok |-> TRUE]
\* lines 139-144: the private port of the first port mapping
portExposed(c) ==
    IF Len(c.Ports) = 0 THEN [port |-> 0, ok |-> FALSE]
    ELSE [port |-> c.Ports[1], ok |-> TRUE]

\* lines 178-185: the containerInfo of a retained container
ContainerInfo(c) ==
    [Name |-> ContainerName(c), ID |-> c.ID, TS |-> c.Created \div 1000,
     Labels |-> c.Labels, IP |-> NetworkIP(c), Port |-> portExposed(c).port]

\* variant: an empty address is accepted
NoAddressNever(ip) == FALSE
\* lines 169-171: no address was found on the configured network
NoAddress(ip) == ip = <<>>

\* variant: a retained container is put in front of the ones before it
RECURSIVE ScanContainersPrepending(_, _)
ScanContainersPrepending(cs, res) ==
    IF cs = <<>> THEN res
    ELSE LET c == Head(cs) IN
         IF ~StatusUp(c) THEN ScanContainersPrepending(Tail(cs), res)
         ELSE IF NameExcluded(c) THEN ScanContainersPrepending(Tail(cs), res)
         ELSE IF NoAddress(NetworkIP(c))
              THEN ScanContainersPrepending(Tail(cs), res)
         ELSE IF ~portExposed(c).ok
              THEN ScanContainersPrepending(Tail(cs), res)
         ELSE ScanContainersPrepending(Tail(cs), <<ContainerInfo(c)>> \o res)

\* lines 152-189: the loop of listContainers over the rest cs of the
\* enumeration, res holding the infos collected so far
RECURSIVE ScanContainers(_, _)
ScanContainers(cs, res) ==
    IF cs = <<>> THEN res
    ELSE LET c == Head(cs) IN
         IF ~StatusUp(c) THEN ScanContainers(Tail(cs), res)
         ELSE IF NameExcluded(c) THEN ScanContainers(Tail(cs), res)
         ELSE IF NoAddress(NetworkIP(c)) THEN ScanContainers(Tail(cs), res)
         ELSE IF ~portExposed(c).ok THEN ScanContainers(Tail(cs), res)
         ELSE ScanContainers(Tail(cs), Append(res, ContainerInfo(c)))

\* variant: a failed enumeration is tried a second time
listContainersRetrying(cs, fails) ==
    IF fails
    THEN [res |-> <<>>,
          err |-> [msg |-> "can't list containers", arg |-> <<>>,
                   cause |-> ApiError],
          calls |-> 1 + 1]
    ELSE [res |-> ScanContainers(cs, <<>>), err |-> NilListErr, calls |-> 1]
\* lines 137-192: listContainers, given what the client's ListContainers
\* returns (the containers cs, or an error when fails); calls counts the
\* calls of ListContainers made (line 146)
listContainers(cs, fails) ==
    IF fails
    THEN [res |-> <<>>,
          err |-> [msg |-> "can't list containers", arg |-> <<>>,
                   cause |-> ApiError],
          calls |-> 1]
    ELSE [res |-> ScanContainers(cs, <<>>), err |-> NilListErr, calls |-> 1]

\* line 78: the default source pattern
DefaultSrc(name) == ApiPrefix \o name \o CaptureSuffix

\* variant: the default destination without the capture placeholder
DefaultDstNoCapture(ip, port) == HttpPrefix \o ip \o Colon \o Itoa(port)
\* line 79: the default destination
DefaultDst(ip, port) == HttpPrefix \o ip \o Colon \o Itoa(port) \o DollarOne

\* lines 78-89: source pattern, destination and server of the info ci
SrcURL(ci) ==
    IF "dpx.route" \in DOMAIN ci.Labels THEN ci.Labels["dpx.route"]
    ELSE DefaultSrc(ci.Name)
\* variant: the capture placeholder follows the dpx.dest value
DestURLKeepsCapture(ci) ==
    IF "dpx.dest" \in DOMAIN ci.Labels
    THEN HttpPrefix \o ci.IP \o Colon \o Itoa(ci.Port) \o ci.Labels["dpx.dest"]
             \o DollarOne
    ELSE DefaultDst(ci.IP, ci.Port)
DestURL(ci) ==
    IF "dpx.dest" \in DOMAIN ci.Labels
    THEN HttpPrefix \o ci.IP \o Colon \o Itoa(ci.Port) \o ci.Labels["dpx.dest"]
    ELSE DefaultDst(ci.IP, ci.Port)
Server(ci) ==
    IF "dpx.server" \in DOMAIN ci.Labels THEN ci.Labels["dpx.server"]
    ELSE <<"*">>

\* line 95: the url mapper of the info ci
UrlMapper(ci) == [Server |-> Server(ci), SrcMatch |-> SrcURL(ci), Dst |-> DestURL(ci)]

\* variant: the error is formatted with the container's name
InvalidSrcErrorOfName(ci, code) ==
    [msg |-> "invalid src regex %s", arg |-> ci.Name,
     cause |-> [code |-> code, expr |-> SrcURL(ci)]]
\* line 92: errors.Wrapf(err, "invalid src regex %s", srcURL), err being the
\* error of regexp.Compile, which quotes the pattern
InvalidSrcError(ci, code) ==
    [msg |-> "invalid src regex %s", arg |-> SrcURL(ci),
     cause |-> [code |-> code, expr |-> SrcURL(ci)]]

\* variant: a container whose pattern does not compile is passed over
RECURSIVE BuildMappersSkipping(_, _, _)
BuildMappersSkipping(cis, res, from) ==
    IF cis = <<>> THEN [res |-> res, err |-> NilListErr, from |-> from]
    ELSE LET ci == Head(cis)
             code == Compile(SrcURL(ci))
         IN IF code # ""
            THEN BuildMappersSkipping(Tail(cis), res, from)
            ELSE BuildMappersSkipping(Tail(cis), Append(res, UrlMapper(ci)),
                                      Append(from, ci.ID))

\* lines 76-97: the loop of List over the rest cis of the infos, res and from
\* holding the mappers built so far and the IDs of their containers
RECURSIVE BuildMappers(_, _, _)
BuildMappers(cis, res, from) ==
    IF cis = <<>> THEN [res |-> res, err |-> NilListErr, from |-> from]
    ELSE LET ci == Head(cis)
             code == Compile(SrcURL(ci))
         IN IF code # ""
            THEN [res |-> <<>>, err |-> InvalidSrcError(ci, code),
                  from |-> <<>>]
            ELSE BuildMappers(Tail(cis), Append(res, UrlMapper(ci)),
                              Append(from, ci.ID))

\* lines 70-98: List, given what the client's ListContainers returns
List(cs, fails) ==
    LET lc == listContainers(cs, fails) IN
    IF lc.err # NilListErr
    THEN [res |-> <<>>, err |-> lc.err, from |-> <<>>, calls |-> lc.calls]
    ELSE LET bm == BuildMappers(lc.res, <<>>, <<>>) IN
         [res |-> bm.res, err |-> bm.err, from |-> bm.from,
          calls |-> lc.calls]

(* Inputs of the inventory mapper *)

IpBridge == <<"1", "0", ".", "0", ".", "0", ".", "5">>
IpOther == <<"1", "7", "2", ".", "1", ".", "0", ".", "9">>
NameWeb == <<"w", "e", "b">>
RouteGood == <<"^", "/", "s", "p", "/", "(", ".", "*", ")">>
RouteBad == <<"^", "/", "s", "p", "/", "(", ".", "*">>
DestV2 == <<"/", "v", "2">>
ServerX == <<"x", ".", "e", "x">>
NoLabels == [k \in {} |-> <<>>]

ContainerStatuses == {"start", "restart", "die"}
ContainerNames == {<<Slash \o NameFoo>>, <<Slash \o NameSkip>>,
                   <<Slash \o NameBar, Slash \o NameSkip>>}
ContainerNetworks == {("other" :> IpOther),
                      ("bridge" :> IpBridge) @@ ("other" :> IpOther),
                      ("bridge" :> <<>>)}
ContainerPorts == {<<>>, <<9000>>, <<80, 9000>>}
ContainerLabels == {NoLabels,
                    ("dpx.route" :> RouteGood),
                    ("dpx.dest" :> DestV2),
                    ("dpx.server" :> ServerX),
                    ("dpx.route" :> RouteGood) @@ ("dpx.dest" :> DestV2),
                    ("dpx.dest" :> DestV2) @@ ("dpx.server" :> ServerX),
                    ("dpx.route" :> RouteGood) @@ ("dpx.dest" :> DestV2)
                        @@ ("dpx.server" :> ServerX),
                    ("dpx.route" :> RouteBad) @@ ("dpx.server" :> ServerX)}

\* the containers that vary freely, one per enumeration
FreeContainers ==
    [ID : {0}, Created : {5000}, Status : ContainerStatuses,
     Names : ContainerNames, Networks : ContainerNetworks,
     Ports : ContainerPorts, Labels : ContainerLabels]

\* the containers enumerated around the free one: a plain running container
\* and a running container with a route that does not compile
Web == [ID |-> 0, Created |-> 7000, Status |-> "start",
        Names |-> <<Slash \o NameWeb>>,
        Networks |-> ("bridge" :> IpOther), Ports |-> <<3000>>,
        Labels |-> NoLabels]
Broken == [ID |-> 0, Created |-> 9000, Status |-> "restart",
           Names |-> <<Slash \o NameWeb>>,
           Networks |-> ("bridge" :> IpOther), Ports |-> <<3000>>,
           Labels |-> ("dpx.route" :> RouteBad)]
Companions == {Web, Broken}

RECURSIVE SeqsUpTo(_, _)
SeqsUpTo(S, n) ==
    IF n = 0 THEN {<<>>}
    ELSE LET shorter == SeqsUpTo(S, n - 1) IN
         shorter \cup {Append(q, x) : q \in shorter, x \in S}

InsertAt(q, k, x) == SubSeq(q, 1, k - 1) \o <<x>> \o SubSeq(q, k, Len(q))
\* the runtime's ID of a container is unique: here its place in the list
WithIDs(q) == [i \in 1..Len(q) |-> [q[i] EXCEPT !.ID = i]]

\* the enumerations: empty, or one free container anywhere among companions
ContainerSeqs ==
    {<<>>} \cup
    UNION {{WithIDs(InsertAt(q, k, c)) : k \in 1..(Len(q) + 1),
                                         c \in FreeContainers} :
           q \in SeqsUpTo(Companions, MaxContainers - 1)}

\* lines 54-65, 104-135: the steps the goroutine of Events takes by itself;
\* Receive is not among them, it needs the consumer
WatcherStep ==
    \/ Subscribe
    \/ CtxDone
    \/ RecvClosed
    \/ \E e \in Events : TakeEvent(e)
    \/ CheckErr
    \/ SleepDone

ListIdle ==
    /\ listRes = <<>>
    /\ listErr = NilListErr
    /\ listFrom = <<>>
    /\ listCalls = 0
    /\ enumCalls = 0

\* a call of List(): one call of the client's ListContainers, then the rules
CallList ==
    /\ listCalls < MaxCalls
    /\ LET r == List(containers, apiFails) IN
         /\ listRes' = r.res
         /\ listErr' = r.err
         /\ listFrom' = r.from
         /\ enumCalls' = enumCalls + r.calls
    /\ listCalls' = listCalls + 1
    /\ UNCHANGED <<containers, apiFails>>
    /\ UNCHANGED <<config, watcherVars>>

\* the runtime stops or starts answering the enumeration
ApiChange ==
    /\ apiFails' = ~apiFails
    /\ UNCHANGED <<containers, listRes, listErr, listFrom, listCalls, enumCalls>>
    /\ UNCHANGED <<config, watcherVars>>

ListInit ==
    /\ Excludes \in ExcludesChoices
    /\ Network \in NetworkChoices
    /\ WatcherInit
    /\ containers \in ContainerSeqs
    /\ apiFails = FALSE
    /\ ListIdle

ListNext ==
    \/ CallList
    \/ ApiChange

ListSpec == ListInit /\ [][ListNext]_vars

Init ==
    /\ Excludes \in ExcludesChoices
    /\ Network \in NetworkChoices
    /\ WatcherInit
    /\ containers = <<>>
    /\ apiFails = FALSE
    /\ ListIdle

Next ==
    \/ SubscribeOK
    \/ \E r \in ClientErrors : SubscribeFail(r)
    \/ CtxDone
    \/ RecvClosed
    \/ \E e \in Events : TakeEvent(e)
    \/ Receive
    \/ CheckErr
    \/ SleepDone
    \/ Cancel
    \/ Expire
    \/ CloseFeed

Spec == Init /\ [][Next]_vars

\* The goroutine of Events is scheduled fairly: a step it can take it takes.
\* A select with several ready cases picks one at random, so the ctx.Done()
\* case cannot lose for ever (strong fairness).  The runtime and the consumer
\* owe nothing: a feed may stay silent and a consumer may stop receiving.
WatcherFairness ==
    /\ WF_vars(Subscribe)
    /\ SF_vars(CtxDone)
    /\ WF_vars(RecvClosed)
    /\ WF_vars(CheckErr)
    /\ WF_vars(SleepDone)

FairSpec == Spec /\ WatcherFairness

\* FairSpec with a runtime that does not refuse subscriptions for ever
RecoveringSpec == FairSpec /\ SF_vars(SubscribeOK)

----------------------------------------------------------------------------
(* Claims about the event watcher *)

Cancelled == ctxErr # NilErr
SinkClosed == closes > 0
\* a transient failure has been returned to the loop of Events
TransientFailure == pc = "check" /\ err # ctxErr

\* the name attribute with one leading "/" stripped
StripOneSlash(n) == IF n # <<>> /\ Head(n) = "/" THEN Tail(n) ELSE n
ExcludedNames == {Excludes[i] : i \in 1..Len(Excludes)}
\* the three conditions of relevance as the specification states them
Relevant(e) ==
    /\ e.Type = "container"
    /\ e.Status \in {"start", "restart", "die", "destroy", "stop", "pause"}
    /\ StripOneSlash(e.Name) \notin ExcludedNames
EventTaken == observed' = observed + 1
NoSignal ==
    /\ pc' = "select"
    /\ pending' = pending
    /\ delivered' = delivered
    /\ relevantTaken' = relevantTaken

\* C1: the sink is closed only if the lifetime has been cancelled or has
\* expired; failed subscriptions and closed feeds never close it.
C1_ClosedOnlyOnCancel == SinkClosed => Cancelled

\* both kinds of transient failure have happened, the lifetime is live, and
\* the sink is open with the watcher subscribed again
C1_Witness ==
    /\ failKinds = {"subscribe", "feed"}
    /\ ~Cancelled
    /\ ~SinkClosed
    /\ pc = "select"

\* C2: whenever the lifetime is cancelled or expires, the sink is eventually
\* closed and the watcher's task terminates, from every state of the watcher.
C2_CancelLeadsToClose == Cancelled ~> (SinkClosed /\ pc = "done")

\* C3: after a transient failure the watcher does not terminate: it waits the
\* delay, subscribes again, relevant events of the new feed produce signals,
\* and the task ends only by observing cancellation or expiry.
C3_Step ==
    /\ TransientFailure => pc' \in {"check", "sleep"} /\ closes' = closes
    /\ pc = "sleep" => pc' \in {"sleep", "subscribe"} /\ closes' = closes
    /\ (pc # "done" /\ pc' = "done") => Cancelled /\ err = ctxErr
    /\ (failKinds # {} /\ EventTaken /\ Relevant(ev'))
          => pc' = "send" /\ pending' = observed'
C3_RestartAfterFailure ==
    /\ [][C3_Step]_vars
    /\ TransientFailure ~> (pc = "subscribe")

\* after both kinds of failure an event of the new feed is being signalled
C3_Witness ==
    /\ failKinds = {"subscribe", "feed"}
    /\ pc = "send"
    /\ pending = observed
    /\ ~SinkClosed

\* C4: an event produces a signal only if it is of type container, has an up
\* or down status and a name, stripped of one leading "/", that is not
\* excluded; any other event produces no signal and the watcher goes on.
C4_SignalOnlyIfRelevant ==
    [][ /\ (pc # "send" /\ pc' = "send") => (EventTaken /\ Relevant(ev'))
        /\ (EventTaken /\ ~Relevant(ev')) => NoSignal ]_vars

\* an event of an excluded container, named with two leading "/", was taken
\* and filtered out
C4_Witness ==
    /\ ev = [Type |-> "container", Status |-> "start",
             Name |-> Slash \o Slash \o NameBar]
    /\ Excludes # <<>>
    /\ observed = MaxEvents
    /\ relevantTaken = <<>>
    /\ pc = "select"

PendingSignal == IF pending = 0 THEN <<>> ELSE <<pending>>

\* C5: every relevant event taken gives exactly one signal, in the order of
\* the events: signals delivered plus the at most one signal pending are the
\* relevant events taken, none dropped, duplicated, merged or reordered.
C5_OneSignalPerRelevantEvent ==
    /\ [](delivered \o PendingSignal = relevantTaken)
    /\ []((pending # 0) <=> (pc = "send"))
    /\ [][ (EventTaken /\ Relevant(ev'))
             => relevantTaken' = Append(relevantTaken, observed') ]_vars

\* every event taken was relevant, all but the last signal are delivered
C5_Witness ==
    /\ observed = MaxEvents
    /\ Len(relevantTaken) = MaxEvents
    /\ Len(delivered) = MaxEvents - 1
    /\ pending = MaxEvents

----------------------------------------------------------------------------
(* Claims about the inventory mapper *)

Called == listCalls > 0
Succeeded == Called /\ listErr = NilListErr
UpSet == {"start", "restart"}
\* the enumerated container rule i was derived from
Origin(i) == containers[listFrom[i]]
\* the enumerated containers that gave no rule
Dropped == {j \in DOMAIN containers : \A i \in DOMAIN listFrom : listFrom[i] # j}
\* every rule comes from one enumerated container, in enumeration order
RulesTraced ==
    /\ Len(listRes) = Len(listFrom)
    /\ \A i \in DOMAIN listFrom : listFrom[i] \in DOMAIN containers
    /\ \A i, k \in DOMAIN listFrom : i < k => listFrom[i] < listFrom[k]
\* would be retained as far as name, network and ports go
Reachable(c) ==
    /\ StripOneSlash(c.Names[1]) \notin ExcludedNames
    /\ Network \in DOMAIN c.Networks
    /\ c.Networks[Network] # <<>>
    /\ c.Ports # <<>>
\* the text of the ports the enumerations use
PortText ==
    (80 :> <<"8", "0">>) @@ (3000 :> <<"3", "0", "0", "0">>)
        @@ (9000 :> <<"9", "0", "0", "0">>)
HasPrefix(q, pre) == Len(q) >= Len(pre) /\ SubSeq(q, 1, Len(pre)) = pre

\* C6: List() produces no rule for a container whose status is not start or
\* restart, whatever its name, networks, ports and labels.
C6_NoRuleUnlessUp ==
    /\ RulesTraced
    /\ \A i \in DOMAIN listFrom : Origin(i).Status \in UpSet

\* a stopped container that is otherwise reachable gave no rule, next to a
\* container that gave one
C6_Witness ==
    /\ Succeeded
    /\ listRes # <<>>
    /\ \E j \in Dropped :
         /\ containers[j].Status = "die"
         /\ Reachable(containers[j])

\* C7: List() produces no rule for a container whose first name, stripped of
\* one leading "/", is in the exclusion list, whatever its other attributes.
C7_NoRuleIfExcluded ==
    /\ RulesTraced
    /\ \A i \in DOMAIN listFrom :
         StripOneSlash(Origin(i).Names[1]) \notin ExcludedNames

\* a running, reachable container carrying all three dpx labels gave no rule
\* because its name is excluded, next to a container that gave one
C7_Witness ==
    /\ Succeeded
    /\ listRes # <<>>
    /\ \E j \in Dropped :
         /\ containers[j].Status \in UpSet
         /\ containers[j].Names[1] = Slash \o NameSkip
         /\ DOMAIN containers[j].Labels = {"dpx.route", "dpx.dest", "dpx.server"}
         /\ Network \in DOMAIN containers[j].Networks
         /\ containers[j].Networks[Network] # <<>>
         /\ containers[j].Ports # <<>>

\* C8: List() produces no rule for a container without an entry for the
\* configured network, even if it has addresses elsewhere; the destination of
\* a rule uses the address on the configured network and no other.
C8_ConfiguredNetworkOnly ==
    /\ RulesTraced
    /\ \A i \in DOMAIN listFrom :
         /\ Network \in DOMAIN Origin(i).Networks
         /\ HasPrefix(listRes[i].Dst,
                      HttpPrefix \o Origin(i).Networks[Network] \o Colon)

\* a running container with an address on another network only gave no rule,
\* next to a container that gave one
C8_Witness ==
    /\ Succeeded
    /\ listRes # <<>>
    /\ \E j \in Dropped :
         /\ containers[j].Status \in UpSet
         /\ StripOneSlash(containers[j].Names[1]) \notin ExcludedNames
         /\ DOMAIN containers[j].Networks = {"other"}
         /\ containers[j].Ports # <<>>

\* C9: List() produces no rule for a container without ports; the port of a
\* rule's destination is the private port of the first mapping.
C9_FirstPortOnly ==
    /\ RulesTraced
    /\ \A i \in DOMAIN listFrom :
         /\ Origin(i).Ports # <<>>
         /\ HasPrefix(listRes[i].Dst,
                      HttpPrefix \o Origin(i).Networks[Network] \o Colon
                          \o PortText[Origin(i).Ports[1]] \o <<"/">>)

\* a container with two port mappings gave a rule
C9_Witness ==
    /\ Succeeded
    /\ \E i \in DOMAIN listFrom :
         /\ Origin(i).Ports = <<80, 9000>>
         /\ "dpx.dest" \notin DOMAIN Origin(i).Labels

DpxLabels == {"dpx.route", "dpx.dest", "dpx.server"}
\* retained, as the specification states it
Retained(c) ==
    /\ c.Status \in UpSet
    /\ StripOneSlash(c.Names[1]) \notin ExcludedNames
    /\ Network \in DOMAIN c.Networks
    /\ c.Ports # <<>>
\* the default rule of container c, as the specification states it
DefaultRule(c) ==
    [Server |-> <<"*">>,
     SrcMatch |-> <<"^", "/", "a", "p", "i", "/">> \o StripOneSlash(c.Names[1])
                     \o <<"/", "(", ".", "*", ")">>,
     Dst |-> <<"h", "t", "t", "p", ":", "/", "/">> \o c.Networks[Network]
                \o <<":">> \o PortText[c.Ports[1]] \o <<"/", "$", "1">>]
\* the rule of the example: name foo, address 10.0.0.5, port 9000
FooRule ==
    [Server |-> <<"*">>,
     SrcMatch |-> <<"^", "/", "a", "p", "i", "/", "f", "o", "o", "/", "(",
                    ".", "*", ")">>,
     Dst |-> <<"h", "t", "t", "p", ":", "/", "/", "1", "0", ".", "0", ".",
               "0", ".", "5", ":", "9", "0", "0", "0", "/", "$", "1">>]
IsFoo(c) ==
    /\ c.Names[1] = Slash \o NameFoo
    /\ Network \in DOMAIN c.Networks
    /\ c.Networks[Network] = IpBridge
    /\ c.Ports = <<9000>>
    /\ DOMAIN c.Labels \cap DpxLabels = {}

\* C10: a retained container without dpx labels gives the rule with server
\* "*", source ^/api/N/(.*) and destination http://A:P/$1; the listing fails
\* on a pattern only if a retained container carries dpx.route.
C10_DefaultRule ==
    /\ RulesTraced
    /\ \A i \in DOMAIN listFrom :
         DOMAIN Origin(i).Labels \cap DpxLabels = {}
            => /\ listRes[i] = DefaultRule(Origin(i))
               /\ IsFoo(Origin(i)) => listRes[i] = FooRule
    /\ (Called /\ \A j \in DOMAIN containers :
                     Retained(containers[j])
                        => "dpx.route" \notin DOMAIN containers[j].Labels)
          => /\ listErr.msg # "invalid src regex %s"
             /\ (listErr = NilListErr =>
                   \A j \in DOMAIN containers :
                      (Retained(containers[j])
                         /\ containers[j].Networks[Network] # <<>>)
                         => j \notin Dropped)

\* the container of the example gave its rule, after another container's
C10_Witness ==
    /\ Succeeded
    /\ Len(listRes) = MaxContainers
    /\ IsFoo(Origin(MaxContainers))
    /\ listRes[MaxContainers] = FooRule

\* the text of error e names the text t: t occurs in what e was formatted from
Occurs(t, q) ==
    \E k \in 1..(Len(q) - Len(t) + 1) : SubSeq(q, k, k + Len(t) - 1) = t
\* the source pattern of container c, as the specification states it
SrcPattern(c) ==
    IF "dpx.route" \in DOMAIN c.Labels THEN c.Labels["dpx.route"]
    ELSE <<"^", "/", "a", "p", "i", "/">> \o StripOneSlash(c.Names[1])
             \o <<"/", "(", ".", "*", ")">>
\* retained, an empty address counting as no address
Kept(c) == Retained(c) /\ c.Networks[Network] # <<>>
KeptIndexes == {j \in DOMAIN containers : Kept(containers[j])}
\* the kept containers whose source pattern does not compile
BadIndexes == {j \in KeptIndexes : Compile(SrcPattern(containers[j])) # ""}
PatternFailed == Called /\ listErr.msg = "invalid src regex %s"
EnumFailed == Called /\ listErr.msg = "can't list containers"

\* C11: each dpx label overrides its own field only: dpx.route the source
\* pattern, verbatim; dpx.dest the destination, http://A:P followed by the
\* value and no $1; dpx.server the server; an absent label leaves the default.
C11_LabelOverrides ==
    /\ RulesTraced
    /\ \A i \in DOMAIN listFrom :
         LET c == Origin(i)
             base == <<"h", "t", "t", "p", ":", "/", "/">> \o c.Networks[Network]
                        \o <<":">> \o PortText[c.Ports[1]]
         IN /\ listRes[i].SrcMatch =
                 IF "dpx.route" \in DOMAIN c.Labels THEN c.Labels["dpx.route"]
                 ELSE DefaultRule(c).SrcMatch
            /\ listRes[i].Dst =
                 IF "dpx.dest" \in DOMAIN c.Labels
                 THEN base \o c.Labels["dpx.dest"]
                 ELSE base \o <<"/", "$", "1">>
            /\ listRes[i].Server =
                 IF "dpx.server" \in DOMAIN c.Labels THEN c.Labels["dpx.server"]
                 ELSE <<"*">>

\* the container of the example with all three labels gave its rule
C11_Witness ==
    /\ Succeeded
    /\ \E i \in DOMAIN listFrom :
         /\ DOMAIN Origin(i).Labels = DpxLabels
         /\ Origin(i).Ports = <<9000>>
         /\ listRes[i] =
              [Server |-> <<"x", ".", "e", "x">>,
               SrcMatch |-> <<"^", "/", "s", "p", "/", "(", ".", "*", ")">>,
               Dst |-> <<"h", "t", "t", "p", ":", "/", "/", "1", "0", ".",
                         "0", ".", "0", ".", "5", ":", "9", "0", "0", "0",
                         "/", "v", "2">>]

\* C12: if the source pattern of a retained container does not compile,
\* List() returns an error and no rule, wherever the container is; every rule
\* of a successful List() has a pattern that compiles.
C12_FailFast ==
    /\ (Called /\ BadIndexes # {}) => (listErr # NilListErr /\ listRes = <<>>)
    /\ (Called /\ BadIndexes # {} /\ ~EnumFailed) => PatternFailed
    /\ listErr # NilListErr => listRes = <<>>
    /\ \A i \in DOMAIN listRes : Compile(listRes[i].SrcMatch) = ""

\* the last enumerated container has the bad pattern, after a kept container
\* with a good one: no rule is returned
C12_Witness ==
    /\ PatternFailed
    /\ listRes = <<>>
    /\ Len(containers) = MaxContainers
    /\ BadIndexes = {MaxContainers}
    /\ KeptIndexes = DOMAIN containers

ListCalled == listCalls' = listCalls + 1

\* C13: if the enumeration fails, List() returns an error and no rules; each
\* List() makes exactly one enumeration call, without retry, and returns
\* nothing derived from an earlier call.
C13_EnumerationFailure ==
    /\ [](enumCalls = listCalls)
    /\ [][ListCalled =>
            /\ enumCalls' = enumCalls + 1
            /\ apiFails =>
                 /\ listRes' = <<>>
                 /\ listFrom' = <<>>
                 /\ listErr'.msg = "can't list containers"
                 /\ listErr'.cause = ApiError
            /\ ~apiFails => listErr'.msg # "can't list containers"]_vars

\* the last of several calls failed on the enumeration, over containers that
\* give rules when it works
C13_Witness ==
    /\ listCalls = MaxCalls
    /\ enumCalls = MaxCalls
    /\ apiFails
    /\ EnumFailed
    /\ listRes = <<>>
    /\ KeptIndexes # {}
    /\ BadIndexes = {}

\* C14: a successful List() returns one rule per retained container and
\* nothing else, in the order of the enumeration.
C14_OneRulePerRetained ==
    Succeeded =>
        /\ RulesTraced
        /\ {listFrom[i] : i \in DOMAIN listFrom} = KeptIndexes
        /\ Len(listRes) = Cardinality(KeptIndexes)

\* every enumerated container was retained and gave its rule, in order
C14_Witness ==
    /\ Succeeded
    /\ Len(containers) = MaxContainers
    /\ listFrom = [i \in 1..MaxContainers |-> i]
    /\ listRes[1] # listRes[MaxContainers]

\* the first kept container whose pattern does not compile
FirstBad == CHOOSE j \in BadIndexes : \A k \in BadIndexes : j <= k
\* what the error was formatted from
ErrorText(e) == e.arg \o e.cause.expr

C16_BlockingHandOff ==
    /\ [](Len(relevantTaken) - Len(delivered) <= 1)
    /\ []((Len(relevantTaken) - Len(delivered) = 1) <=> (pc = "send"))
    /\ [](pc = "send" => ~ENABLED WatcherStep)
    /\ [][pc = "send" =>
            /\ observed' = observed
            /\ relevantTaken' = relevantTaken
            /\ pc' \in {"send", "select"}
            /\ pc' = "select" => delivered' = Append(delivered, pending)]_vars

\* a signal waits for the consumer while the feed is open and the watcher
\* could still be given events
C16_Witness ==
    /\ pc = "send"
    /\ pending = 1
    /\ delivered = <<>>
    /\ feed = "open"
    /\ observed < MaxEvents

\* C17: while handing a signal over, the watcher also waits on cancellation:
\* cancelled during the hand-off, it can leave it without the consumer.
C17_LeavesHandOffOnCancel == (pc = "send" /\ Cancelled) => ENABLED WatcherStep

\* C18: the sink is closed at most once, and once it is closed the watcher
\* takes no further step: no signal, no subscription, no event.
C18_ClosedOnceThenNothing ==
    /\ [](closes <= 1)
    /\ [](SinkClosed => pc = "done" /\ pending = 0)
    /\ [](SinkClosed => ~ENABLED WatcherStep /\ ~ENABLED Receive)
    /\ [][SinkClosed => UNCHANGED watcherVars]_vars

\* the sink is closed after failures of both kinds and a delivered signal
C18_Witness ==
    /\ closes = 1
    /\ failKinds = {"subscribe", "feed"}
    /\ delivered # <<>>

\* C19: cancellation is observed only while waiting on a subscribed feed:
\* the sink is closed only on the lifetime's error coming out of the select,
\* and a cancelled watcher that is in the delay, or whose subscription fails,
\* goes round again without closing.
C19_CancelSeenOnlyOnFeed ==
    [][ /\ closes' # closes => (pc = "check" /\ Cancelled /\ err = ctxErr)
        /\ (pc # "check" /\ pc' = "check" /\ err' \in {Canceled, DeadlineExceeded})
              => (pc = "select" /\ feed # "none")
        /\ (Cancelled /\ pc \in {"subscribe", "sleep"})
              => (closes' = closes /\ pc' # "done")
        /\ (Cancelled /\ TransientFailure)
              => (closes' = closes /\ pc' \in {"check", "sleep"}) ]_vars

\* the lifetime is cancelled and the subscription failed with the client's
\* own "context canceled": the watcher is about to wait and try again
C19_Witness ==
    /\ ctxErr = Canceled
    /\ pc = "check"
    /\ err = <<"can't add even listener", "context canceled">>
    /\ failKinds = {"subscribe"}
    /\ closes = 0

\* C20: a container whose address on the configured network is the empty
\* string gives no rule, like a container without that network: no
\* destination has an empty host.
C20_NoEmptyHost ==
    /\ RulesTraced
    /\ \A i \in DOMAIN listFrom :
         /\ Network \in DOMAIN Origin(i).Networks
         /\ Origin(i).Networks[Network] # <<>>
         /\ ~HasPrefix(listRes[i].Dst,
                       <<"h", "t", "t", "p", ":", "/", "/", ":">>)

\* a running container with ports and an empty address on the configured
\* network gave no rule, next to a container that gave one
C20_Witness ==
    /\ Succeeded
    /\ listRes # <<>>
    /\ \E j \in Dropped :
         /\ containers[j].Status \in UpSet
         /\ StripOneSlash(containers[j].Names[1]) \notin ExcludedNames
         /\ Network \in DOMAIN containers[j].Networks
         /\ containers[j].Networks[Network] = <<>>
         /\ containers[j].Ports # <<>>

====
